---- MODULE Spec2Model ----
(***************************************************************************)
(* A model of quasispycies.py: the Clusters class (annotated cluster       *)
(* fasta), the Pileup class (mpileup table) and the file functions         *)
(* filtering_fastaclusters_by_percentage and normalize_percentage.         *)
(*                                                                         *)
(* Text is modelled character by character: a line is a sequence of        *)
(* one-character strings that ends with "\n", and a file, read with        *)
(* readlines() or written line by line, is a sequence of lines.  A Python  *)
(* float that stands for a decimal number is a record [m, e] with value    *)
(* m / 10^e; the arithmetic is that of Python 3 (true division).           *)
(***************************************************************************)
EXTENDS Integers, Sequences, FiniteSets, TLC

VARIABLES
    cluster_file,       \* lines of a clustered fasta without percentages
    fasta_file,         \* Clusters.fasta_file: lines of the annotated fasta
    dict_fasta,         \* Clusters.dict_fasta, in insertion order
    names,              \* Clusters.names
    sequences,          \* Clusters.sequences
    percentages,        \* Clusters.percentages
    number_reads,       \* Clusters.number_reads
    out_file,           \* the lines of the file written last, and by whom
    result,             \* outcome of the last call: a return or an exception
    pileup_file,        \* Pileup.pileup_file: the lines, split into fields
    min_reads_per_position,
    dict_pileup,        \* Pileup.dict_pileup, in insertion order
    polymorphic_sites_dict  \* Pileup.polymorphic_sites_dict

clusterVars == <<cluster_file, fasta_file, dict_fasta, names, sequences,
                 percentages, number_reads, out_file>>
pileupVars == <<pileup_file, min_reads_per_position, dict_pileup,
                polymorphic_sites_dict>>
vars == <<clusterVars, pileupVars, result>>

----------------------------------------------------------------------------
(* Bounds of the model *)

MaxRecords == 2
MaxReads == 3
MaxLines == 2
MaxBases == 2
FracBits == 1

MaxCutoff == 1

Names == {<<"a">>, <<"b">>}
SeqLines == {<<"A", "C", "\n">>, <<"G", "\n">>}
\* cutoffs on the 0-100 scale handed to shannon_entropy
MinPercs == {0, 40, 101}
\* fractions num / 2^FracBits in [0,1]: exact as floats, and so are their
\* products with the read totals of the model
FracDen == 2 ^ FracBits
Fractions == 0 .. FracDen
\* what a read shows at a position, and the mapping quality characters
Symbols == {"A", "c", ".", ","}
QualChars == {"A"}
\* the cutoffs handed to polymorphic_sites: a number of reads, or the
\* fraction cutoff / FracDen
Cutoffs == 0 .. MaxCutoff
ValueTypes == {"percentage", "number_reads"}

----------------------------------------------------------------------------
(* Python values *)

\* Body(e), with e evaluated once
With(e, Body(_)) == CHOOSE r \in {Body(x) : x \in {e}} : TRUE

None == [kind |-> "None"]
Return(v) == [kind |-> "return", value |-> v]
Raise(e) == [kind |-> "raise", exception |-> e]

Digits == <<"0", "1", "2", "3", "4", "5", "6", "7", "8", "9">>
IsDigit(c) == c \in {"0", "1", "2", "3", "4", "5", "6", "7", "8", "9"}
DigitVal(c) == (CHOOSE d \in 1 .. 10 : Digits[d] = c) - 1

RECURSIVE Pow10(_)
Pow10(e) == IF e = 0 THEN 1 ELSE 10 * Pow10(e - 1)

\* str(n) of a non-negative int
RECURSIVE IntStr(_)
IntStr(n) ==
    IF n < 10 THEN <<Digits[n + 1]>>
    ELSE IntStr(n \div 10) \o <<Digits[(n % 10) + 1]>>

\* the number the first k digits of s spell
RECURSIVE IntUpTo(_, _)
IntUpTo(s, k) ==
    IF k = 0 THEN 0 ELSE 10 * IntUpTo(s, k - 1) + DigitVal(s[k])

\* int(s) of a sequence of digits
IntOf(s) == IntUpTo(s, Len(s))

\* a / b (a >= 0, b > 0) rounded to the nearest integer, a tie going to the
\* even one: round() of a float.  A float holds a tie exactly when the total
\* of the reads is a power of two, and the read totals of the model that are
\* no power of two give no tie.
RoundDiv(a, b) ==
    IF 2 * (a % b) < b THEN a \div b
    ELSE IF 2 * (a % b) > b THEN (a \div b) + 1
    ELSE IF (a \div b) % 2 = 0 THEN a \div b ELSE (a \div b) + 1

\* 100 * (n / total) cut after two places, not rounded
RoundPercentTruncated(n, total) == [m |-> (10000 * n) \div total, e |-> 2]

\* round(100 * (n / total), 2), as a decimal with two places
RoundPercent(n, total) == [m |-> RoundDiv(10000 * n, total), e |-> 2]

\* the decimal with no trailing zero after its first place
RECURSIVE DecNorm(_)
DecNorm(x) ==
    IF x.e > 1 /\ x.m % 10 = 0 THEN DecNorm([m |-> x.m \div 10, e |-> x.e - 1])
    ELSE x

\* n written with exactly w digits
RECURSIVE Padded(_, _)
Padded(n, w) ==
    IF w = 0 THEN <<>> ELSE Padded(n \div 10, w - 1) \o <<Digits[(n % 10) + 1]>>

\* str(x) of a float: the shortest decimal, with at least one place
FloatStr(x) ==
    With(DecNorm(x), LAMBDA y :
        IF y.e = 0 THEN IntStr(y.m) \o <<".", "0">>
        ELSE IntStr(y.m \div Pow10(y.e)) \o <<".">>
             \o Padded(y.m % Pow10(y.e), y.e))

\* x >= y of two floats
DecGE(x, y) == x.m * Pow10(y.e) >= y.m * Pow10(x.e)

\* s without its character at place sep
Without(s, sep) == SubSeq(s, 1, sep - 1) \o SubSeq(s, sep + 1, Len(s))

\* float(s) of the text that "(\d+.\d+)" matched: digits, the one character
\* at place sep, digits
FloatOf(s, sep) ==
    IF s[sep] = "." THEN Return([m |-> IntOf(Without(s, sep)), e |-> Len(s) - sep])
    ELSE IF IsDigit(s[sep]) THEN Return([m |-> IntOf(s), e |-> 0])
    ELSE IF s[sep] = "_" THEN Return([m |-> IntOf(Without(s, sep)), e |-> 0])
    ELSE Raise("ValueError")

RECURSIVE SumSeq(_)
SumSeq(s) == IF s = <<>> THEN 0 ELSE s[1] + SumSeq(Tail(s))

Min(S) == CHOOSE x \in S : \A y \in S : x <= y
Max(S) == CHOOSE x \in S : \A y \in S : x >= y

----------------------------------------------------------------------------
(* Text: rstrip, re.search, re.sub *)

Whitespace == {" ", "\t", "\n"}

\* s.rstrip()
RECURSIVE RStrip(_)
RStrip(s) ==
    IF s # <<>> /\ s[Len(s)] \in Whitespace
    THEN RStrip(SubSeq(s, 1, Len(s) - 1))
    ELSE s

\* the number of digits that start at place i of line
RECURSIVE DigitRun(_, _)
DigitRun(line, i) ==
    IF i <= Len(line) /\ IsDigit(line[i]) THEN 1 + DigitRun(line, i + 1) ELSE 0

\* line.startswith(">"), line[0] == ">"
IsHeader(line) == Len(line) >= 1 /\ line[1] = ">"

SizeTag == <<";", "s", "i", "z", "e", "=">>

\* re.search(";size=(\d+)", line): the leftmost match, \d+ greedy
SizeSearch(line) ==
    With({i \in 1 .. Len(line) - 6 :
             SubSeq(line, i, i + 5) = SizeTag /\ IsDigit(line[i + 6])},
         LAMBDA at :
            IF at = {} THEN None
            ELSE [kind |-> "match", start |-> Min(at),
                  group |-> SubSeq(line, Min(at) + 6,
                                   Min(at) + 5 + DigitRun(line, Min(at) + 6))])

\* where "(\d+.\d+)%" ends when its one character is at place sep: after the
\* whole run of digits that follows
PercentEnd(line, sep) == sep + 1 + DigitRun(line, sep + 1)

\* the matches of "(\d+.\d+)%" in line: digits from place start on, one
\* character that is no line break at place sep, a whole run of digits, "%"
PercentMatches(line) ==
    {m \in [start : 1 .. Len(line), sep : 1 .. Len(line)] :
        /\ m.start < m.sep
        /\ m.sep - m.start <= DigitRun(line, m.start)
        /\ line[m.sep] # "\n"
        /\ DigitRun(line, m.sep + 1) >= 1
        /\ PercentEnd(line, m.sep) <= Len(line)
        /\ line[PercentEnd(line, m.sep)] = "%"}

\* the match the regular expression engine finds first at or after place
\* from: the leftmost start, and there the longest first \d+
PercentMatch(line, from) ==
    With({m \in PercentMatches(line) : m.start >= from}, LAMBDA ms :
        IF ms = {} THEN None
        ELSE With(CHOOSE m \in ms : \A o \in ms :
                      \/ m.start < o.start
                      \/ m.start = o.start /\ m.sep >= o.sep,
                  LAMBDA m : [kind |-> "match", start |-> m.start,
                              sep |-> m.sep, end |-> PercentEnd(line, m.sep)]))

\* re.search("(\d+.\d+)%", line): the group, and in it the place of the one
\* character
PercentSearch(line) ==
    With(PercentMatch(line, 1), LAMBDA m :
        IF m.kind = "None" THEN None
        ELSE [kind |-> "match", start |-> m.start,
              sep |-> m.sep - m.start + 1,
              group |-> SubSeq(line, m.start, m.end - 1)])

\* re.sub("(\d+.\d+)%", repl, line) from place from on: every match that
\* does not overlap an earlier one is replaced
RECURSIVE PercentSub(_, _, _)
PercentSub(repl, line, from) ==
    With(PercentMatch(line, from), LAMBDA m :
        IF m.kind = "None" THEN SubSeq(line, from, Len(line))
        ELSE SubSeq(line, from, m.start - 1) \o repl
             \o PercentSub(repl, line, m.end + 1))

----------------------------------------------------------------------------
(* dict: a sequence of [key, value] in insertion order *)

DictKeys(d) == {d[i].key : i \in 1 .. Len(d)}

\* d[k] = v
DictSet(d, k, v) ==
    IF k \in DictKeys(d)
    THEN [i \in 1 .. Len(d) |->
            IF d[i].key = k THEN [key |-> k, value |-> v] ELSE d[i]]
    ELSE Append(d, [key |-> k, value |-> v])

----------------------------------------------------------------------------
(* class Clusters *)

NewClusters == [dict_fasta |-> <<>>, names |-> <<>>, sequences |-> <<>>,
                percentages |-> <<>>, number_reads |-> <<>>]

\* the body of the loop of Clusters.__init__ for the header at place number
ClustersHeader(lines, number, self) ==
    With(SizeSearch(lines[number]), LAMBDA n_search :
    With(PercentSearch(lines[number]), LAMBDA percentage_search :
        IF n_search.kind = "None" THEN Raise("AttributeError")
        ELSE IF percentage_search.kind = "None" THEN Raise("AttributeError")
        ELSE With(FloatOf(percentage_search.group, percentage_search.sep),
                  LAMBDA percentage :
            IF percentage.kind = "raise" THEN percentage
            ELSE IF number + 1 > Len(lines) THEN Raise("IndexError")
            ELSE Return(
                [dict_fasta |->
                    DictSet(self.dict_fasta,
                            SubSeq(lines[number], 2, n_search.start - 1),
                            <<lines[number + 1], percentage.value,
                              IntOf(n_search.group)>>),
                 names |->
                    Append(self.names,
                           SubSeq(lines[number], 2, n_search.start - 1)),
                 sequences |-> Append(self.sequences, lines[number + 1]),
                 percentages |-> Append(self.percentages, percentage.value),
                 number_reads |->
                    Append(self.number_reads, IntOf(n_search.group))]))))

\* the loop of Clusters.__init__ from the line at place number on
RECURSIVE ClustersLoop(_, _, _)
ClustersLoop(lines, number, self) ==
    IF number > Len(lines) THEN Return(self)
    ELSE IF ~ IsHeader(lines[number]) THEN ClustersLoop(lines, number + 1, self)
    ELSE With(ClustersHeader(lines, number, self), LAMBDA next :
            IF next.kind = "raise" THEN next
            ELSE ClustersLoop(lines, number + 1, next.value))

\* Clusters(fasta), fasta holding lines
ClustersInit(lines) == ClustersLoop(lines, 1, NewClusters)

\* list_sizes of shannon_entropy: the sizes its first loop keeps
RECURSIVE EntropySizes(_, _)
EntropySizes(d, minimun_perc) ==
    IF d = <<>> THEN <<>>
    ELSE IF DecGE(d[1].value[2], [m |-> minimun_perc, e |-> 0])
    THEN <<d[1].value[3]>> \o EntropySizes(Tail(d), minimun_perc)
    ELSE EntropySizes(Tail(d), minimun_perc)

\* shannon_entropy(minimun_perc).  The entropy is a quotient of logarithms
\* and is kept as the sizes and the total it is computed from.
shannon_entropy(d, minimun_perc) ==
    With(EntropySizes(d, minimun_perc), LAMBDA list_sizes :
        IF SumSeq(list_sizes) = 0 THEN Raise("ValueError")
        ELSE IF SumSeq(list_sizes) = 1 THEN Raise("ZeroDivisionError")
        ELSE Return([list_sizes |-> list_sizes,
                     number_reads |-> SumSeq(list_sizes)]))

RECURSIVE SumSquares(_)
SumSquares(s) == IF s = <<>> THEN 0 ELSE s[1] * s[1] + SumSquares(Tail(s))

\* D of the Simpson methods as the fraction num / den: the sum of
\* (element / sum(number_reads)) ** 2
SimpsonD(reads) ==
    [num |-> SumSquares(reads), den |-> SumSeq(reads) * SumSeq(reads)]

\* simpsons_index(): round(D, 2)
simpsons_index(reads) ==
    IF reads = <<>> THEN Return([m |-> 0, e |-> 2])
    ELSE IF SumSeq(reads) = 0 THEN Raise("ZeroDivisionError")
    ELSE With(SimpsonD(reads), LAMBDA D :
            Return([m |-> RoundDiv(100 * D.num, D.den), e |-> 2]))

\* simpsons_index_of_diversity(): round(1 - D, 2)
simpsons_index_of_diversity(reads) ==
    IF reads = <<>> THEN Return([m |-> 100, e |-> 2])
    ELSE IF SumSeq(reads) = 0 THEN Raise("ZeroDivisionError")
    ELSE With(SimpsonD(reads), LAMBDA D :
            Return([m |-> RoundDiv(100 * (D.den - D.num), D.den), e |-> 2]))

\* round(1 / simpsons_index(), 2): the reciprocal of the rounded index
simpsons_reciprocal_of_index(reads) ==
    IF reads = <<>> \/ SumSeq(reads) = 0 THEN Raise("ZeroDivisionError")
    ELSE With(simpsons_index(reads).value.m, LAMBDA index :
            IF index = 0 THEN Raise("ZeroDivisionError")
            ELSE Return([m |-> RoundDiv(10000, index), e |-> 2]))

\* simpsons_reciprocal_index(): round(1 / D, 2)
simpsons_reciprocal_index(reads) ==
    IF reads = <<>> \/ SumSeq(reads) = 0 THEN Raise("ZeroDivisionError")
    ELSE With(SimpsonD(reads), LAMBDA D :
            Return([m |-> RoundDiv(100 * D.den, D.num), e |-> 2]))

\* the lines clusters_object_to_fasta writes
RECURSIVE clusters_object_to_fasta(_)
clusters_object_to_fasta(d) ==
    IF d = <<>> THEN <<>>
    ELSE << <<">">> \o d[1].key \o <<"_", "s", "i", "z", "e", "=">>
               \o FloatStr(d[1].value[2]) \o <<"_">>
               \o FloatStr(d[1].value[2]) \o <<"%", "\n">>,
            d[1].value[1] >>
         \o clusters_object_to_fasta(Tail(d))

\* number_reads of filtering_clusters_by_percentage_to_fasta: its first loop
RECURSIVE DictReads(_)
DictReads(d) == IF d = <<>> THEN 0 ELSE d[1].value[3] + DictReads(Tail(d))

\* the second loop with > in the place of >=
RECURSIVE DictFilterStrict(_, _, _)
DictFilterStrict(d, total, num) ==
    IF d = <<>> THEN <<>>
    ELSE IF d[1].value[3] * FracDen > total * num
    THEN <<d[1].value[1]>> \o DictFilterStrict(Tail(d), total, num)
    ELSE DictFilterStrict(Tail(d), total, num)

\* its second loop, with minimun_perc = num / FracDen
RECURSIVE DictFilter(_, _, _)
DictFilter(d, total, num) ==
    IF d = <<>> THEN <<>>
    ELSE IF d[1].value[3] * FracDen >= total * num
    THEN <<d[1].value[1]>> \o DictFilter(Tail(d), total, num)
    ELSE DictFilter(Tail(d), total, num)

\* the lines filtering_clusters_by_percentage_to_fasta writes
filtering_clusters_by_percentage_to_fasta(d, num) ==
    With(DictReads(d), LAMBDA total : DictFilter(d, total, num))

\* number_haplotypes(value_type, cutoff): the haplotypes at or over the cutoff
number_haplotypes(d, value_type, cutoff) ==
    IF value_type = "percentage"
    THEN Cardinality({i \in 1 .. Len(d) :
                        DecGE(d[i].value[2], [m |-> cutoff, e |-> 0])})
    ELSE IF value_type = "number_reads"
    THEN Cardinality({i \in 1 .. Len(d) : d[i].value[3] >= cutoff})
    ELSE 0

----------------------------------------------------------------------------
(* The file functions.  The files they are run on have a size in every     *)
(* header and a line after every header.                                   *)

\* n of a header line: int(n_search.group(1))
HeaderSize(line) == IntOf(SizeSearch(line).group)

\* the first loop of filtering_fastaclusters_by_percentage and of
\* normalize_percentage, from the line at place number on
RECURSIVE FileReads(_, _)
FileReads(fasta_in, number) ==
    IF number > Len(fasta_in) THEN 0
    ELSE IF IsHeader(fasta_in[number])
    THEN HeaderSize(fasta_in[number]) + FileReads(fasta_in, number + 1)
    ELSE FileReads(fasta_in, number + 1)

\* the second loop of filtering_fastaclusters_by_percentage from the line at
\* place number on, with minimun_perc = num / FracDen
RECURSIVE FileFilter(_, _, _, _)
FileFilter(fasta_in, number, total, num) ==
    IF number > Len(fasta_in) THEN <<>>
    ELSE IF /\ IsHeader(fasta_in[number])
            /\ HeaderSize(fasta_in[number]) * FracDen >= total * num
    THEN << RStrip(fasta_in[number]) \o <<"_">>
               \o FloatStr(RoundPercent(HeaderSize(fasta_in[number]), total))
               \o <<"%", "\n">>,
            fasta_in[number + 1] >>
         \o FileFilter(fasta_in, number + 1, total, num)
    ELSE FileFilter(fasta_in, number + 1, total, num)

\* the lines filtering_fastaclusters_by_percentage writes
filtering_fastaclusters_by_percentage(fasta_in, num) ==
    With(FileReads(fasta_in, 1), LAMBDA total :
        FileFilter(fasta_in, 1, total, num))

\* the second loop of normalize_percentage from the line at place number on
RECURSIVE NormalizeLoop(_, _, _)
NormalizeLoop(fasta_in, number, total) ==
    IF number > Len(fasta_in) THEN <<>>
    ELSE IF IsHeader(fasta_in[number])
    THEN << RStrip(PercentSub(
                FloatStr(RoundPercent(HeaderSize(fasta_in[number]), total)),
                fasta_in[number], 1))
               \o <<"%", "\n">>,
            fasta_in[number + 1] >>
         \o NormalizeLoop(fasta_in, number + 1, total)
    ELSE NormalizeLoop(fasta_in, number + 1, total)

\* the lines normalize_percentage writes
normalize_percentage(fasta_in) ==
    With(FileReads(fasta_in, 1), LAMBDA total :
        NormalizeLoop(fasta_in, 1, total))

----------------------------------------------------------------------------
(* class Pileup.  A line of the pileup is kept as the fields that          *)
(* line.split("\t") gives and __init__ reads: line_number, ref_base and    *)
(* pos_bases_original.                                                     *)

\* c.upper()
Upper(c) ==
    CASE c = "a" -> "A"
      [] c = "c" -> "C"
      [] c = "g" -> "G"
      [] c = "t" -> "T"
      [] c = "n" -> "N"
      [] OTHER -> c

\* s.upper()
UpperSeq(s) == [i \in 1 .. Len(s) |-> Upper(s[i])]

\* the class [ACTGNacgtn.,]
BaseClass == {"A", "C", "T", "G", "N", "a", "c", "g", "t", "n", ".", ","}

\* re.sub(r"\^.([ACTGNacgtn.,])", r"\1", bases) from place i on
RECURSIVE CaretSub(_, _)
CaretSub(bases, i) ==
    IF i > Len(bases) THEN <<>>
    ELSE IF /\ bases[i] = "^"
            /\ i + 2 <= Len(bases)
            /\ bases[i + 1] # "\n"
            /\ bases[i + 2] \in BaseClass
    THEN <<bases[i + 2]>> \o CaretSub(bases, i + 3)
    ELSE <<bases[i]>> \o CaretSub(bases, i + 1)

\* re.sub("[.,]", ref_base, bases)
MatchSub(ref_base, bases) ==
    [i \in 1 .. Len(bases) |->
        IF bases[i] \in {".", ","} THEN ref_base ELSE bases[i]]

\* what __init__ stores for the line at index n (from 0)
PileupValue(line, n, min_reads) ==
    IF n < min_reads
    THEN UpperSeq(MatchSub(line.ref_base,
                           UpperSeq(CaretSub(line.pos_bases_original, 1))))
    ELSE UpperSeq(MatchSub(line.ref_base, line.pos_bases_original))

\* the loop of Pileup.__init__ over the first k lines
RECURSIVE PileupLoop(_, _, _)
PileupLoop(lines, k, min_reads) ==
    IF k = 0 THEN <<>>
    ELSE DictSet(PileupLoop(lines, k - 1, min_reads), lines[k].line_number,
                 PileupValue(lines[k], k - 1, min_reads))

\* dict_pileup of Pileup(pileup_file, min_reads_per_position)
PileupInit(lines, min_reads) == PileupLoop(lines, Len(lines), min_reads)

\* pos.upper().count(base)
Count(pos, base) == Cardinality({i \in 1 .. Len(pos) : Upper(pos[i]) = base})

\* A, T, C, G of a stored position
BaseCounts(pos) ==
    [A |-> Count(pos, "A"), T |-> Count(pos, "T"),
     C |-> Count(pos, "C"), G |-> Count(pos, "G")]

\* the numerator of Di: A*C + A*G + A*T + C*G + C*T + G*T
PairSum(n) ==
    n.A * n.C + n.A * n.G + n.A * n.T + n.C * n.G + n.C * n.T + n.G * n.T

\* reads of nucleotide_diversity: A + C + T + G
Reads(n) == n.A + n.C + n.T + n.G

\* sum(nuc_diversity_list) over the positions from place i on, as the
\* fraction num / den; every Di is PairSum / ((reads**2 - reads) / 2)
RECURSIVE DiSum(_, _)
DiSum(d, i) ==
    IF i > Len(d) THEN [num |-> 0, den |-> 1]
    ELSE With(BaseCounts(d[i].value), LAMBDA n :
         With(DiSum(d, i + 1), LAMBDA rest :
            [num |-> 2 * PairSum(n) * rest.den
                     + rest.num * (Reads(n) * Reads(n) - Reads(n)),
             den |-> (Reads(n) * Reads(n) - Reads(n)) * rest.den]))

\* nucleotide_diversity(): a position with reads <= 1 divides by zero, and so
\* does the mean over no position
nucleotide_diversity(d) ==
    IF \E i \in 1 .. Len(d) : Reads(BaseCounts(d[i].value)) <= 1
    THEN Raise("ZeroDivisionError")
    ELSE IF Len(d) = 0 THEN Raise("ZeroDivisionError")
    ELSE With(DiSum(d, 1), LAMBDA total :
            Return([m |-> RoundDiv(10000 * total.num, total.den * Len(d)),
                    e |-> 4]))

\* s with x put before its first element that is larger
RECURSIVE Insert(_, _)
Insert(x, s) ==
    IF s = <<>> THEN <<x>>
    ELSE IF x <= s[1] THEN <<x>> \o s
    ELSE <<s[1]>> \o Insert(x, Tail(s))

\* list_n_bases = [A,T,C,G] after list_n_bases.sort()
SortedCounts(n) == Insert(n.A, Insert(n.T, Insert(n.C, Insert(n.G, <<>>))))

\* the test on the highest count, list_n_bases[3], in the place of the
\* second highest, list_n_bases[2]
QualifiesHighest(pos, value_type, cutoff) ==
    With(SortedCounts(BaseCounts(pos)), LAMBDA list_n_bases :
        IF value_type = "percentage"
        THEN list_n_bases[4] * FracDen > SumSeq(list_n_bases) * cutoff
        ELSE IF value_type = "number_reads"
        THEN list_n_bases[4] > cutoff
        ELSE FALSE)

\* the test of polymorphic_sites on one position; a cutoff of the metric
\* "percentage" is the fraction cutoff / FracDen
Qualifies(pos, value_type, cutoff) ==
    With(SortedCounts(BaseCounts(pos)), LAMBDA list_n_bases :
        IF value_type = "percentage"
        THEN list_n_bases[3] * FracDen > SumSeq(list_n_bases) * cutoff
        ELSE IF value_type = "number_reads"
        THEN list_n_bases[3] > cutoff
        ELSE FALSE)

\* the loop of polymorphic_sites over the positions from place i on: the
\* count and the dictionary of the qualifying positions, which starts as sites
RECURSIVE PolymorphicLoop(_, _, _, _, _)
PolymorphicLoop(d, i, value_type, cutoff, sites) ==
    IF i > Len(d) THEN [number_polymorphic_sites |-> 0, sites |-> sites]
    ELSE IF Qualifies(d[i].value, value_type, cutoff)
    THEN With(PolymorphicLoop(d, i + 1, value_type, cutoff,
                              DictSet(sites, d[i].key, d[i].value)),
              LAMBDA rest :
                [number_polymorphic_sites |-> rest.number_polymorphic_sites + 1,
                 sites |-> rest.sites])
    ELSE PolymorphicLoop(d, i + 1, value_type, cutoff, sites)

\* polymorphic_sites(value_type, cutoff) with self.polymorphic_sites_dict
\* holding sites
polymorphic_sites(d, value_type, cutoff, sites) ==
    PolymorphicLoop(d, 1, value_type, cutoff, sites)

----------------------------------------------------------------------------
(* The input files of the model *)

ClusterRecords == [name : Names, n : 1 .. MaxReads, sequence : SeqLines]
ClusterLists == UNION {[1 .. k -> ClusterRecords] : k \in 0 .. MaxRecords}

\* a header as the clustering tool writes it: >name;size=n
HeaderLine(r) == <<">">> \o r.name \o SizeTag \o IntStr(r.n) \o <<"\n">>

\* the clustered fasta of a list of clusters
RECURSIVE ClusterLines(_)
ClusterLines(rs) ==
    IF rs = <<>> THEN <<>>
    ELSE <<HeaderLine(rs[1]), rs[1].sequence>> \o ClusterLines(Tail(rs))

\* one read at a position: its symbol, after "^" and the mapping quality
\* when the read starts there
ReadTexts ==
    {<<b>> : b \in Symbols} \cup {<<"^", q, b>> : q \in QualChars, b \in Symbols}

RECURSIVE ReadStrings(_)
ReadStrings(k) ==
    IF k = 0 THEN {<<>>}
    ELSE {r \o rest : r \in ReadTexts, rest \in ReadStrings(k - 1)}

\* the base strings of a position: "*" at depth 0, else the reads
BaseStrings == {<<"*">>} \cup UNION {ReadStrings(k) : k \in 1 .. MaxBases}

\* the reference base at position k
RefBase(k) == IF k % 2 = 1 THEN "T" ELSE "a"

PileupLines ==
    UNION {{[k \in 1 .. len |->
                [line_number |-> k, ref_base |-> RefBase(k),
                 pos_bases_original |-> bases[k]]] :
            bases \in [1 .. len -> BaseStrings]} : len \in 0 .. MaxLines}

----------------------------------------------------------------------------
(* The state machine *)

NoFile == [by |-> "none", input |-> <<>>, num |-> 0, lines |-> <<>>]
NoResult == [op |-> "none", arg |-> 0, outcome |-> None]

NoClusters ==
    /\ dict_fasta = <<>>
    /\ names = <<>>
    /\ sequences = <<>>
    /\ percentages = <<>>
    /\ number_reads = <<>>

NoPileup ==
    /\ pileup_file = <<>>
    /\ min_reads_per_position = 0
    /\ dict_pileup = <<>>
    /\ polymorphic_sites_dict = <<>>

\* A clustered fasta, the fasta that filtering_fastaclusters_by_percentage
\* with cutoff 0 annotates it to, and Clusters(fasta) of the annotated fasta
Init ==
    /\ \E rs \in ClusterLists : cluster_file = ClusterLines(rs)
    /\ fasta_file = filtering_fastaclusters_by_percentage(cluster_file, 0)
    /\ \E self \in {ClustersInit(fasta_file).value} :
           /\ dict_fasta = self.dict_fasta
           /\ names = self.names
           /\ sequences = self.sequences
           /\ percentages = self.percentages
           /\ number_reads = self.number_reads
    /\ out_file = NoFile
    /\ result = NoResult
    /\ NoPileup

\* Pileup(pileup_file, min_reads_per_position)
InitPileup ==
    /\ pileup_file \in PileupLines
    /\ min_reads_per_position \in 0 .. MaxLines
    /\ dict_pileup = PileupInit(pileup_file, min_reads_per_position)
    /\ polymorphic_sites_dict = <<>>
    /\ cluster_file = <<>>
    /\ fasta_file = <<>>
    /\ out_file = NoFile
    /\ result = NoResult
    /\ NoClusters

\* a call that returns or raises and writes no file
Query(op, arg, outcome) ==
    /\ result' = [op |-> op, arg |-> arg, outcome |-> outcome]
    /\ UNCHANGED <<clusterVars, pileupVars>>

\* a call that writes lines to its output file
Write(by, input, num, lines) ==
    /\ out_file' = [by |-> by, input |-> input, num |-> num, lines |-> lines]
    /\ result' = [op |-> by, arg |-> num, outcome |-> Return(None)]
    /\ UNCHANGED <<cluster_file, fasta_file, dict_fasta, names, sequences,
                   percentages, number_reads, pileupVars>>

ShannonEntropy ==
    \E minimun_perc \in MinPercs :
        Query("shannon_entropy", minimun_perc,
              shannon_entropy(dict_fasta, minimun_perc))

SimpsonsIndex == Query("simpsons_index", 0, simpsons_index(number_reads))

SimpsonsIndexOfDiversity ==
    Query("simpsons_index_of_diversity", 0,
          simpsons_index_of_diversity(number_reads))

SimpsonsReciprocalIndex ==
    Query("simpsons_reciprocal_index", 0,
          simpsons_reciprocal_index(number_reads))

NumberHaplotypes ==
    \/ \E cutoff \in MinPercs :
          Query("number_haplotypes", <<"percentage", cutoff>>,
                Return(number_haplotypes(dict_fasta, "percentage", cutoff)))
    \/ \E cutoff \in 1 .. MaxReads :
          Query("number_haplotypes", <<"number_reads", cutoff>>,
                Return(number_haplotypes(dict_fasta, "number_reads", cutoff)))

ClustersObjectToFasta ==
    Write("clusters_object_to_fasta", <<>>, 0,
          clusters_object_to_fasta(dict_fasta))

FilteringClustersByPercentageToFasta ==
    \E num \in Fractions :
        Write("filtering_clusters_by_percentage_to_fasta", <<>>, num,
              filtering_clusters_by_percentage_to_fasta(dict_fasta, num))

\* run on the clustered fasta or on the annotated fasta
FilteringFastaclustersByPercentage ==
    \E num \in Fractions, input1 \in {cluster_file, fasta_file} :
        Write("filtering_fastaclusters_by_percentage", input1, num,
              filtering_fastaclusters_by_percentage(input1, num))

\* run on the annotated fasta or on what
\* filtering_fastaclusters_by_percentage wrote
NormalizePercentage ==
    \E input1 \in {fasta_file} \cup
                  (IF out_file.by = "filtering_fastaclusters_by_percentage"
                   THEN {out_file.lines} ELSE {}) :
        Write("normalize_percentage", input1, 0, normalize_percentage(input1))

\* Clusters(output): the file written last is loaded
Reload ==
    /\ out_file.by # "none"
    /\ Query("Clusters", 0, ClustersInit(out_file.lines))

NucleotideDiversity ==
    Query("nucleotide_diversity", 0, nucleotide_diversity(dict_pileup))

PolymorphicSites ==
    \E value_type \in ValueTypes, cutoff \in Cutoffs :
        \E r \in {polymorphic_sites(dict_pileup, value_type, cutoff,
                                    polymorphic_sites_dict)} :
            /\ polymorphic_sites_dict' = r.sites
            /\ result' = [op |-> "polymorphic_sites",
                          arg |-> <<value_type, cutoff>>,
                          outcome |-> Return(r.number_polymorphic_sites)]
            /\ UNCHANGED <<clusterVars, pileup_file, min_reads_per_position,
                           dict_pileup>>

Next ==
    \/ ShannonEntropy
    \/ SimpsonsIndex
    \/ SimpsonsIndexOfDiversity
    \/ SimpsonsReciprocalIndex
    \/ NumberHaplotypes
    \/ ClustersObjectToFasta
    \/ Reload

NextFiles ==
    \/ FilteringClustersByPercentageToFasta
    \/ FilteringFastaclustersByPercentage
    \/ NormalizePercentage

NextPileup ==
    \/ NucleotideDiversity
    \/ PolymorphicSites

Spec == Init /\ [][Next]_vars
SpecFiles == Init /\ [][NextFiles]_vars
SpecPileup == InitPileup /\ [][NextPileup]_vars

----------------------------------------------------------------------------
(* The claims of the specification *)

Abs(x) == IF x < 0 THEN -x ELSE x

\* what the parser loads from the annotated fasta
Loaded == ClustersInit(fasta_file).value

\* the loaded collection is what the parser loaded: no call has changed it
LoadedUnchanged ==
    [dict_fasta |-> dict_fasta, names |-> names, sequences |-> sequences,
     percentages |-> percentages, number_reads |-> number_reads] = Loaded

\* the records of a collection: name, sequence, read count
RecordsOf(d) ==
    {<<d[i].key, d[i].value[1], d[i].value[3]>> : i \in 1 .. Len(d)}

\* C1: a collection written with clusters_object_to_fasta and loaded again
\* with Clusters loads, and gives records with the same name, the same
\* sequence and the same read count as the original records.
C1_RoundTrip ==
    (result.op = "Clusters" /\ out_file.by = "clusters_object_to_fasta") =>
        /\ result.outcome.kind = "return"
        /\ RecordsOf(result.outcome.value.dict_fasta) = RecordsOf(dict_fasta)

\* the positions that qualify for polymorphic_sites(value_type, cutoff)
QualifyingKeys(value_type, cutoff) ==
    {dict_pileup[i].key : i \in
        {j \in 1 .. Len(dict_pileup) :
            Qualifies(dict_pileup[j].value, value_type, cutoff)}}

\* C2: after a query polymorphic_sites(metric, cutoff), whatever the queries
\* before it, polymorphic_sites_dict holds exactly the positions that qualify
\* for that query, and the count returned is their number.
C2_RetainedSetOfQuery ==
    result.op = "polymorphic_sites" =>
        /\ DictKeys(polymorphic_sites_dict)
             = QualifyingKeys(result.arg[1], result.arg[2])
        /\ result.outcome
             = Return(Cardinality(QualifyingKeys(result.arg[1], result.arg[2])))

\* a raw base string from place i on without each "^" and the mapping
\* quality character after it
RECURSIVE StripCarets(_, _)
StripCarets(bases, i) ==
    IF i > Len(bases) THEN <<>>
    ELSE IF bases[i] = "^" THEN StripCarets(bases, i + 2)
    ELSE <<bases[i]>> \o StripCarets(bases, i + 1)

\* the count of a letter at a line of the pileup: its explicit occurrences,
\* and for the reference base the match symbols too
ExpectedCount(line, base) ==
    LET s == StripCarets(line.pos_bases_original, 1)
    IN  Cardinality({i \in 1 .. Len(s) : Upper(s[i]) = base})
        + (IF Upper(line.ref_base) = base
           THEN Cardinality({i \in 1 .. Len(s) : s[i] \in {".", ","}})
           ELSE 0)

\* C3: for every line of the pileup, at any line index and for any
\* min_reads_per_position, the A/C/G/T counts of the stored position are the
\* explicit occurrences of each letter in the raw base string, plus the "."
\* and "," for the reference base, with every "^" and the mapping quality
\* character after it stripped and not counted.
C3_CountsOfRawBases ==
    \A k \in 1 .. Len(pileup_file) :
        \E i \in 1 .. Len(dict_pileup) :
            /\ dict_pileup[i].key = pileup_file[k].line_number
            /\ BaseCounts(dict_pileup[i].value)
                 = [A |-> ExpectedCount(pileup_file[k], "A"),
                    T |-> ExpectedCount(pileup_file[k], "T"),
                    C |-> ExpectedCount(pileup_file[k], "C"),
                    G |-> ExpectedCount(pileup_file[k], "G")]

\* the exceptions of the arithmetic of the interpreter: math.log(0) and a
\* division by zero
ArithmeticExceptions == {"ValueError", "ZeroDivisionError"}

\* C4: shannon_entropy(min_percentage) on records of which those with
\* percentage >= min_percentage have a total read count of 0 or 1 ends with
\* an explicit error that is no arithmetic exception of the interpreter, and
\* leaves the loaded records as they were.
C4_ExplicitError ==
    (/\ result.op = "shannon_entropy"
     /\ SumSeq(EntropySizes(dict_fasta, result.arg)) \in {0, 1}) =>
        /\ result.outcome.kind = "raise"
        /\ result.outcome.exception \notin ArithmeticExceptions
        /\ LoadedUnchanged

\* the positions whose Di is defined: those with at least two reads
DefinedPositions(d) ==
    SelectSeq(d, LAMBDA e : Reads(BaseCounts(e.value)) >= 2)

\* C5: nucleotide_diversity on positions of which one has A+C+G+T <= 1 ends
\* with a DegeneratePosition outcome, or with the mean of Di over exactly the
\* positions whose Di is defined; it raises no division by zero.
C5_DegenerateHandled ==
    (/\ result.op = "nucleotide_diversity"
     /\ \E i \in 1 .. Len(dict_pileup) :
            Reads(BaseCounts(dict_pileup[i].value)) <= 1) =>
        \/ result.outcome = Raise("DegeneratePosition")
        \/ /\ DefinedPositions(dict_pileup) # <<>>
           /\ result.outcome = nucleotide_diversity(DefinedPositions(dict_pileup))

\* the read count of the entries of a collection
TotalReads(d) == SumSeq([i \in 1 .. Len(d) |-> d[i].value[3]])

\* the records of a fasta from place k on, in the order of the file
RECURSIVE RecordsFrom(_, _)
RecordsFrom(lines, k) ==
    IF k > Len(lines) THEN <<>>
    ELSE IF IsHeader(lines[k])
    THEN <<[name |-> SubSeq(lines[k], 2, SizeSearch(lines[k]).start - 1),
            n |-> HeaderSize(lines[k]),
            sequence |-> lines[k + 1]]>> \o RecordsFrom(lines, k + 1)
    ELSE RecordsFrom(lines, k + 1)

\* the read count of the records of a fasta
TotalOfFile(lines) ==
    SumSeq([k \in 1 .. Len(lines) |->
                IF IsHeader(lines[k]) THEN HeaderSize(lines[k]) ELSE 0])

\* the sequences of the entries of d with n >= total * num / FracDen
SelectedSequences(d, total, num) ==
    LET kept == SelectSeq(d, LAMBDA e : e.value[3] * FracDen >= total * num)
    IN  [i \in 1 .. Len(kept) |-> kept[i].value[1]]

\* the records rs with n >= total * num / FracDen
SelectedRecords(rs, total, num) ==
    SelectSeq(rs, LAMBDA r : r.n * FracDen >= total * num)

\* C6: filtering with min_fraction = num / FracDen in [0,1] selects exactly
\* the records with read_count >= total_reads * min_fraction, total_reads
\* being the sum over all the records (the entries of dict_fasta for the
\* method, the headers of the input file for the function): all of them for
\* 0, only a record that holds all the reads for 1; and dict_fasta and the
\* lists of the loaded collection are as they were loaded.
C6_SelectsByAbundance ==
    /\ LoadedUnchanged
    /\ out_file.by = "filtering_clusters_by_percentage_to_fasta" =>
        /\ out_file.lines
             = SelectedSequences(dict_fasta, TotalReads(dict_fasta), out_file.num)
        /\ out_file.num = 0 => Len(out_file.lines) = Len(dict_fasta)
        /\ out_file.num = FracDen =>
             out_file.lines =
                SelectedSequences(dict_fasta, TotalReads(dict_fasta), FracDen)
    /\ out_file.by = "filtering_fastaclusters_by_percentage" =>
        /\ RecordsFrom(out_file.lines, 1)
             = SelectedRecords(RecordsFrom(out_file.input, 1),
                               TotalOfFile(out_file.input), out_file.num)
        /\ out_file.num = 0 =>
             RecordsFrom(out_file.lines, 1) = RecordsFrom(out_file.input, 1)
        /\ out_file.num = FracDen =>
             \A i \in 1 .. Len(RecordsFrom(out_file.lines, 1)) :
                RecordsFrom(out_file.lines, 1)[i].n = TotalOfFile(out_file.input)

\* a filtering with a fraction strictly between 0 and 1 that selected some
\* of the records and left some out
C6_Witness ==
    /\ out_file.by = "filtering_clusters_by_percentage_to_fasta"
    /\ out_file.num \in 1 .. FracDen - 1
    /\ Len(out_file.lines) \in 1 .. Len(dict_fasta) - 1

\* the places of the headers of a fasta
HeaderPlaces(lines) == {k \in 1 .. Len(lines) : IsHeader(lines[k])}

\* the percentage a header ends with, in hundredths; -1 when the header
\* does not end with a percentage
WrittenHundredths(line) ==
    LET m == PercentSearch(line)
    IN  IF m.kind = "None" THEN -1
        ELSE IF m.start + Len(m.group) # Len(line) - 1 THEN -1
        ELSE LET x == FloatOf(m.group, m.sep)
             IN  IF x.kind = "raise" \/ x.value.e > 2 THEN -1
                 ELSE x.value.m * Pow10(2 - x.value.e)

\* C7: normalize_percentage on a fasta with at least one record writes every
\* record with its size and its sequence, and with the percentage
\* 100 * read_count / (sum of read_count over the file) rounded to 2 decimal
\* places; the percentages written sum to 100.00 within 0.005 per record.
C7_NormalizedPercentages ==
    (/\ out_file.by = "normalize_percentage"
     /\ HeaderPlaces(out_file.input) # {}) =>
        /\ Len(out_file.lines) = Len(out_file.input)
        /\ \A k \in 1 .. Len(out_file.input) :
            IF IsHeader(out_file.input[k])
            THEN /\ IsHeader(out_file.lines[k])
                 /\ SizeSearch(out_file.lines[k]).kind = "match"
                 /\ HeaderSize(out_file.lines[k]) = HeaderSize(out_file.input[k])
                 /\ WrittenHundredths(out_file.lines[k]) >= 0
                 /\ 2 * Abs(10000 * HeaderSize(out_file.input[k])
                            - WrittenHundredths(out_file.lines[k])
                              * TotalOfFile(out_file.input))
                      <= TotalOfFile(out_file.input)
            ELSE out_file.lines[k] = out_file.input[k]
        /\ 2 * Abs(SumSeq([k \in 1 .. Len(out_file.lines) |->
                             IF IsHeader(out_file.lines[k])
                             THEN WrittenHundredths(out_file.lines[k])
                             ELSE 0]) - 10000)
             <= Cardinality(HeaderPlaces(out_file.input))

\* normalize_percentage run on a fasta that a filtering left a part of, so
\* that the percentages it writes are not the ones it read
C7_Witness ==
    /\ out_file.by = "normalize_percentage"
    /\ HeaderPlaces(out_file.input) # {}
    /\ Len(out_file.input) < Len(fasta_file)
    /\ \E k \in HeaderPlaces(out_file.input) :
          WrittenHundredths(out_file.lines[k])
            # WrittenHundredths(out_file.input[k])

\* a stored position at which two of A, C, G, T have a count that is not 0
TwoBases(pos) ==
    Cardinality({b \in {"A", "C", "G", "T"} : Count(pos, b) > 0}) >= 2

\* C8: polymorphic_sites("number_reads", 0) returns the number of loaded
\* positions at which at least two of A, C, G, T have a non-zero count; a
\* position where one base alone has a non-zero count is not counted.
C8_TwoDistinctBases ==
    (result.op = "polymorphic_sites" /\ result.arg = <<"number_reads", 0>>) =>
        result.outcome
          = Return(Cardinality({i \in 1 .. Len(dict_pileup) :
                                    TwoBases(dict_pileup[i].value)}))

\* the query on two positions, one with two bases, which is counted, and one
\* with a single base, which is not
C8_Witness ==
    /\ result.op = "polymorphic_sites"
    /\ result.arg = <<"number_reads", 0>>
    /\ result.outcome = Return(1)
    /\ \E i, j \in 1 .. Len(dict_pileup) :
          /\ TwoBases(dict_pileup[i].value)
          /\ Reads(BaseCounts(dict_pileup[j].value)) >= 1
          /\ ~ TwoBases(dict_pileup[j].value)

\* a stored position all of whose counted bases are one single base
OneBase(pos) ==
    Cardinality({b \in {"A", "C", "G", "T"} : Count(pos, b) > 0}) = 1

\* C9: nucleotide_diversity of a non-empty set of positions, each with all
\* of its counted bases equal to one single base, returns exactly 0.
C9_MonomorphicIsZero ==
    (/\ result.op = "nucleotide_diversity"
     /\ dict_pileup # <<>>
     /\ \A i \in 1 .. Len(dict_pileup) : OneBase(dict_pileup[i].value)) =>
        result.outcome = Return([m |-> 0, e |-> 4])

\* C10, as the specification states it: for a loaded cluster set with D > 0,
\* simpsons_reciprocal_index() is 1 / simpsons_index(), computed from the
\* value simpsons_index() returns, within the rounding to 2 decimals, and is
\* >= 1; simpsons_index() returns a value in (0,1].
C10_ReciprocalOfIndex ==
    (result.op = "simpsons_reciprocal_index" /\ number_reads # <<>>) =>
        /\ result.outcome.kind = "return"
        /\ simpsons_index(number_reads).kind = "return"
        /\ simpsons_index(number_reads).value.m \in 1 .. 100
        /\ result.outcome.value.m >= 100
        /\ 2 * Abs(result.outcome.value.m * simpsons_index(number_reads).value.m
                   - 10000)
             <= simpsons_index(number_reads).value.m

\* C10, amended: for a loaded cluster set with D > 0, D = S / N^2 with S the
\* sum of the squares of the read counts and N their sum,
\* simpsons_reciprocal_index() is 1 / D rounded to 2 decimals, D not rounded,
\* and is >= 1; simpsons_index() is D rounded to 2 decimals, at most 1, and
\* more than 0 when D > 0.005.
C10_ReciprocalOfD ==
    (result.op = "simpsons_reciprocal_index" /\ number_reads # <<>>) =>
        LET S == SumSquares(number_reads)
            N == SumSeq(number_reads)
            index == simpsons_index(number_reads)
        IN  /\ result.outcome.kind = "return"
            /\ result.outcome.value.e = 2
            /\ 2 * Abs(result.outcome.value.m * S - 100 * N * N) <= S
            /\ result.outcome.value.m >= 100
            /\ index.kind = "return"
            /\ index.value.e = 2
            /\ 2 * Abs(index.value.m * N * N - 100 * S) <= N * N
            /\ index.value.m <= 100
            /\ 200 * S > N * N => index.value.m >= 1

\* the reciprocal index of two clusters of 2 reads and 1 read: D = 5/9,
\* simpsons_index() = 0.56, simpsons_reciprocal_index() = 1.8
C10_Witness ==
    /\ result.op = "simpsons_reciprocal_index"
    /\ number_reads = <<2, 1>>
    /\ result.outcome = Return([m |-> 180, e |-> 2])

\* C11: after Clusters loads a cluster file, also one in which two headers
\* carry the same name, dict_fasta and the lists names, number_reads,
\* percentages and sequences have the same number of entries and the same
\* total read count: the total of the Simpson indices, sum(number_reads), is
\* the total of shannon_entropy(0), of number_haplotypes and of the abundance
\* filter, the sum over dict_fasta.
C11_SameRecords ==
    /\ Len(dict_fasta) = Len(names)
    /\ Len(dict_fasta) = Len(number_reads)
    /\ Len(dict_fasta) = Len(percentages)
    /\ Len(dict_fasta) = Len(sequences)
    /\ SumSeq(number_reads) = DictReads(dict_fasta)
    /\ SumSeq(number_reads) = SumSeq(EntropySizes(dict_fasta, 0))

====
